---- MODULE Spec2Model ----
(***************************************************************************)
(* FeaturePreparer (src/__init__.py): column expansion by powers, pairwise *)
(* products, log and exp, followed by standardisation.                     *)
(*                                                                         *)
(* A matrix is a sequence of columns, each column a sequence of one value  *)
(* per row.  Input matrices hold integers.  Computed matrices hold terms:  *)
(*   [f |-> "num", a |-> v]            the number v                        *)
(*   [f |-> "log", a |-> v]            log(v)                              *)
(*   [f |-> "exp", a |-> v, sn, sd]    exp(v / sqrt(sn / sd))              *)
(*   [f |-> "nonfinite"]               nan or +-inf                        *)
(* None/ndarray fields are options [some, val].                            *)
(***************************************************************************)
EXTENDS Integers, Sequences, FiniteSets, TLC

(* The fields of one FeaturePreparer, then what its caller sees: the argument
   the constructor was given (ctor), the last call (op), its argument (arg)
   and result (ret), the matrix of the latest fit or fit_transform (x_fit);
   twin is a second FeaturePreparer constructed with the same argument. *)
VARIABLES powers, scaler, orig_std, non_boolean_features_mask,
          ctor, op, arg, ret, x_fit, twin

vars == <<powers, scaler, orig_std, non_boolean_features_mask,
          ctor, op, arg, ret, x_fit, twin>>

(* Largest number of columns of an input matrix / names list. *)
MaxCols == 2
(* Longest powers configuration. *)
MaxLen == 2

----------------------------------------------------------------------------
(* Generic helpers *)

None == [some |-> FALSE, val |-> <<>>]
Some(v) == [some |-> TRUE, val |-> v]

Range(s) == {s[i] : i \in DOMAIN s}

RECURSIVE Gcd(_, _)
Gcd(a, b) == IF b = 0 THEN a ELSE Gcd(b, a % b)

RECURSIVE SumSeq(_)
SumSeq(s) == IF s = <<>> THEN 0 ELSE Head(s) + SumSeq(Tail(s))

RECURSIVE Flatten(_)
Flatten(ss) == IF ss = <<>> THEN <<>> ELSE Head(ss) \o Flatten(Tail(ss))

RECURSIVE IntPow(_, _)
IntPow(b, e) == IF e = 0 THEN 1 ELSE b * IntPow(b, e - 1)

(* The positions 1..k of the boolean sequence m that hold TRUE, ascending. *)
RECURSIVE TruePositions(_, _)
TruePositions(m, k) ==
    IF k = 0 THEN <<>>
    ELSE TruePositions(m, k - 1) \o (IF m[k] THEN <<k>> ELSE <<>>)

Digits == <<"0", "1", "2", "3", "4", "5", "6", "7", "8", "9">>

(* str(n) for a non-negative int: its decimal digits. *)
RECURSIVE Str(_)
Str(n) == IF n < 10 THEN Digits[n + 1] ELSE Str(n \div 10) \o Digits[(n % 10) + 1]

----------------------------------------------------------------------------
(* Terms *)

Num(v) == [f |-> "num", a |-> v, sn |-> 0, sd |-> 1]
NonFinite == [f |-> "nonfinite", a |-> 0, sn |-> 0, sd |-> 1]

(* np.log(v): finite only for v > 0 *)
Log(v) == IF v > 0 THEN [f |-> "log", a |-> v, sn |-> 0, sd |-> 1] ELSE NonFinite

(* np.exp(v / std), std = sqrt(s.n / s.d): division by a zero std gives
   nan or inf *)
Exp(v, s) == IF s.n = 0 THEN NonFinite
             ELSE [f |-> "exp", a |-> v, sn |-> s.n, sd |-> s.d]

(* ndarray.std(axis=0) of one column (population std, ddof = 0), kept as
   the reduced fraction n/d of its square: m*sum(x^2) - sum(x)^2 over m^2 *)
Std(col) ==
    LET m == Len(col)
        s1 == SumSeq(col)
        s2 == SumSeq([r \in 1..m |-> col[r] * col[r]])
        v == m * s2 - s1 * s1
        g == Gcd(m * m, v)
    IN [n |-> v \div g, d |-> (m * m) \div g]

----------------------------------------------------------------------------
(* Results of a call *)

(* scaled_by: for the output of scaler.transform, the statistics applied;
   the matrix is then (val - mean_) / scale_, column by column *)
Result(k, v, p, e) == [kind |-> k, val |-> v, val3 |-> p, err |-> e, scaled_by |-> None]

Matrix(v) == Result("ndarray2", v, <<>>, "")
Array3(p) == Result("ndarray3", <<>>, p, "")
NamesArray(v) == Result("names", v, <<>>, "")
Raise(e) == Result("raise", <<>>, <<>>, e)
SelfRet == Result("self", <<>>, <<>>, "")
NoRet == Result("none", <<>>, <<>>, "")

----------------------------------------------------------------------------
(* Powers configuration: ints and the strings "perm", "log", "exp" *)

IntP(k) == [t |-> "int", n |-> k, s |-> ""]
StrP(w) == [t |-> "str", n |-> 0, s |-> w]

PowerEntries == {IntP(1), IntP(2), IntP(3), StrP("perm"), StrP("log"), StrP("exp")}

(* every list of at most MaxLen distinct entries, in every order *)
Configs == UNION {{ps \in [1..l -> PowerEntries] :
                     \A i, j \in 1..l : ps[i] = ps[j] => i = j} : l \in 0..MaxLen}

(* `v in self.powers` *)
InPowers(ps, e) == \E i \in DOMAIN ps : ps[i] = e

(* `p != 1` *)
NotOne(p) == p # IntP(1)

(* mutant: the test `p != 1` is forgotten *)
IntPowersWithOne(ps) == SelectSeq(ps, LAMBDA p : p.t = "int")

(* mutant: the powers are taken in ascending order, not in list order *)
IntPowersSorted(ps) ==
    LET ips == SelectSeq(ps, LAMBDA p : p.t = "int" /\ NotOne(p))
    IN [k \in 1..Len(ips) |->
          CHOOSE p \in Range(ips) : Cardinality({q \in Range(ips) : q.n <= p.n}) = k]

(* [p for p in self.powers if type(p) is int and p != 1] *)
IntPowers(ps) == SelectSeq(ps, LAMBDA p : p.t = "int" /\ NotOne(p))

(* str(p) *)
StrOf(p) == IF p.t = "int" THEN Str(p.n) ELSE p.s

----------------------------------------------------------------------------
(* Inputs *)

SampleColumns == {<<2, 2, 2, 2>>, <<0, 1, 0, 1>>, <<1, 2, 3, 4>>}

Matrices == UNION {[1..n -> SampleColumns] : n \in 1..MaxCols}

ColumnName(k) == "c" \o Str(k)

NamesLists == {[k \in 1..n |-> ColumnName(k)] : n \in 1..MaxCols}

----------------------------------------------------------------------------
(* sklearn.preprocessing.StandardScaler, as far as FeaturePreparer uses it *)

(* mean_ and scale_ (the std, a zero std replaced by 1) are functions of the
   fitted columns alone; they are kept as `seen`, the columns they are the
   statistics of *)
StandardScaler == [fitted |-> FALSE, n_features |-> 0, seen |-> <<>>]

AllFinite(m) == \A c \in DOMAIN m : \A r \in DOMAIN m[c] : m[c][r].f # "nonfinite"

(* input validation shared by fit and transform *)
CheckArray(r) ==
    /\ r.kind = "ndarray2"
    /\ Len(r.val) > 0
    /\ AllFinite(r.val)

(* scaler.fit(x_new): resets, validates, then learns mean_ and scale_ *)
ScalerFit(r) ==
    IF ~CheckArray(r)
      THEN [scaler |-> StandardScaler, ret |-> Raise("ValueError")]
      ELSE [scaler |-> [fitted |-> TRUE, n_features |-> Len(r.val), seen |-> r.val],
            ret |-> SelfRet]

(* scaler.transform(x_new): (x - mean_) / scale_ *)
ScalerTransform(sc, r) ==
    IF ~sc.fitted THEN Raise("NotFittedError")
    ELSE IF ~CheckArray(r) THEN Raise("ValueError")
    ELSE IF Len(r.val) # sc.n_features THEN Raise("ValueError")
    ELSE [Matrix(r.val) EXCEPT !.scaled_by = Some(sc.seen)]

----------------------------------------------------------------------------
(* FeaturePreparer *)

(* __init__ *)
New(ps) == [powers |-> IF ps = <<>> THEN <<IntP(1)>> ELSE ps,
            scaler |-> StandardScaler,
            orig_std |-> None,
            non_boolean_features_mask |-> None]

(* an input matrix as a matrix of terms *)
AsTerms(x) == [c \in 1..Len(x) |-> [r \in 1..Len(x[c]) |-> Num(x[c][r])]]

Piece2(cols) == [nd |-> 2, cols |-> cols]
Piece3(cols) == [nd |-> 3, cols |-> cols]

(* non_boolean_features ** p *)
PowPiece(nbf, p) ==
    [nbf EXCEPT !.cols = [c \in 1..Len(nbf.cols) |->
                            [r \in 1..Len(nbf.cols[c]) |-> Num(IntPow(nbf.cols[c][r], p))]]]

(* np.log(non_boolean_features + 1) *)
LogPiece(nbf) ==
    [nbf EXCEPT !.cols = [c \in 1..Len(nbf.cols) |->
                            [r \in 1..Len(nbf.cols[c]) |-> Log(nbf.cols[c][r] + 1)]]]

(* len(np.unique(col)) > 2 *)
IsNonBoolean(col) == Cardinality(Range(col)) > 2

(* mutant: a mask shorter than the axis is accepted (padded with False) *)
BoolIndexOkPadded(x, mask) == Len(mask) <= Len(x)

(* x[:, mask] fails unless the boolean mask is as long as the axis *)
BoolIndexOk(x, mask) == Len(mask) = Len(x)

(* x[:, mask] for a boolean mask: the columns the mask selects, in order *)
BoolIndex(x, mask) ==
    LET pos == TruePositions(mask, Len(mask))
    IN [k \in 1..Len(pos) |-> x[pos[k]]]

(* mutant: the mask is computed from the matrix at hand *)
NonBooleanFeaturesRecomputed(self, x) ==
    IF ~self.non_boolean_features_mask.some
      THEN Piece3(x)
      ELSE Piece2(BoolIndex(x, [k \in 1..Len(x) |-> IsNonBoolean(x[k])]))

(* x[:, self._non_boolean_features_mask]: a None index inserts an axis
   (shape (m, 1, n)), a boolean mask selects columns *)
NonBooleanFeatures(self, x) ==
    IF ~self.non_boolean_features_mask.some
      THEN Piece3(x)
      ELSE Piece2(BoolIndex(x, self.non_boolean_features_mask.val))

(* mutant: `range(i)`, the pairs without the squares *)
RECURSIVE PermPiecesNoSquares(_, _)
PermPiecesNoSquares(x, i) ==
    IF i = 0 THEN <<>>
    ELSE PermPiecesNoSquares(x, i - 1) \o
         [j \in 1..(i - 1) |->
            Piece2(<<[r \in 1..Len(x[i]) |-> Num(x[i][r] * x[j][r])]>>)]

(* [x[:, i:i+1] * x[:, j:j+1] for i in range(n) for j in range(i + 1)] *)
RECURSIVE PermPieces(_, _)
PermPieces(x, i) ==
    IF i = 0 THEN <<>>
    ELSE PermPieces(x, i - 1) \o
         [j \in 1..i |-> Piece2(<<[r \in 1..Len(x[i]) |-> Num(x[i][r] * x[j][r])]>>)]

(* non_boolean_features / self.__orig_std, then np.exp *)
ExpPiece(nbf, std) ==
    [nbf EXCEPT !.cols = [c \in 1..Len(nbf.cols) |->
                            [r \in 1..Len(nbf.cols[c]) |-> Exp(nbf.cols[c][r], std[c])]]]

(* np.concatenate(f_list, axis=1) if len(f_list) > 1 else f_list[0] *)
Concatenate(f_list) ==
    IF f_list = <<>> THEN Raise("IndexError")
    ELSE IF \A i \in DOMAIN f_list : f_list[i].nd = 2
      THEN Matrix(Flatten([i \in 1..Len(f_list) |-> f_list[i].cols]))
    ELSE IF \A i \in DOMAIN f_list : f_list[i].nd = 3
      THEN Array3([i \in 1..Len(f_list) |-> f_list[i].cols])
    ELSE Raise("ValueError")

apply_powers(self, x) ==
    IF self.non_boolean_features_mask.some
       /\ ~BoolIndexOk(x, self.non_boolean_features_mask.val)
      THEN Raise("IndexError")
    ELSE IF InPowers(self.powers, StrP("exp")) /\ ~self.orig_std.some
      THEN Raise("TypeError")
    ELSE
      LET xt == AsTerms(x)
          nbf == NonBooleanFeatures(self, x)
          ips == IntPowers(self.powers)
          f1 == IF InPowers(self.powers, IntP(1)) THEN <<Piece2(xt)>> ELSE <<>>
          f2 == [k \in 1..Len(ips) |-> PowPiece(nbf, ips[k].n)]
          f3 == IF InPowers(self.powers, StrP("perm"))
                  THEN PermPieces(x, Len(x)) ELSE <<>>
          f4 == IF InPowers(self.powers, StrP("log"))
                  THEN <<LogPiece(nbf)>> ELSE <<>>
          f5 == IF InPowers(self.powers, StrP("exp"))
                  THEN <<ExpPiece(nbf, self.orig_std.val)>> ELSE <<>>
      IN Concatenate(f1 \o f2 \o f3 \o f4 \o f5)

(* mutant: the std is taken of every column, `x.std(axis=0)` *)
private_fit_std_of_x(self, x) ==
    LET mask == [k \in 1..Len(x) |-> IsNonBoolean(x[k])]
        s1 == [self EXCEPT !.non_boolean_features_mask = Some(mask),
                           !.orig_std = Some([k \in 1..Len(x) |-> Std(x[k])])]
        x_new == apply_powers(s1, x)
        sf == ScalerFit(x_new)
    IN IF x_new.kind = "raise" THEN [self |-> s1, ret |-> x_new]
       ELSE IF sf.ret.kind = "raise"
         THEN [self |-> [s1 EXCEPT !.scaler = sf.scaler], ret |-> sf.ret]
       ELSE [self |-> [s1 EXCEPT !.scaler = sf.scaler], ret |-> x_new]

(* __fit *)
private_fit(self, x) ==
    LET mask == [k \in 1..Len(x) |-> IsNonBoolean(x[k])]
        nbf == BoolIndex(x, mask)
        s1 == [self EXCEPT !.non_boolean_features_mask = Some(mask),
                           !.orig_std = Some([k \in 1..Len(nbf) |-> Std(nbf[k])])]
        x_new == apply_powers(s1, x)
        sf == ScalerFit(x_new)
    IN IF x_new.kind = "raise" THEN [self |-> s1, ret |-> x_new]
       ELSE IF sf.ret.kind = "raise"
         THEN [self |-> [s1 EXCEPT !.scaler = sf.scaler], ret |-> sf.ret]
       ELSE [self |-> [s1 EXCEPT !.scaler = sf.scaler], ret |-> x_new]

fit(self, x) ==
    LET r == private_fit(self, x)
    IN IF r.ret.kind = "raise" THEN r ELSE [self |-> r.self, ret |-> SelfRet]

(* mutant: transform fits again, `x_new = self.__fit(x)` *)
transform_refitting(self, x) ==
    LET r == private_fit(self, x)
    IN IF r.ret.kind = "raise" THEN r
       ELSE [self |-> r.self, ret |-> ScalerTransform(r.self.scaler, r.ret)]

transform(self, x) ==
    LET x_new == apply_powers(self, x)
    IN IF x_new.kind = "raise" THEN [self |-> self, ret |-> x_new]
       ELSE [self |-> self, ret |-> ScalerTransform(self.scaler, x_new)]

(* mutant: the scaler is given x, not the expansion x_new *)
fit_transform_of_x(self, x) ==
    LET r == private_fit(self, x)
    IN IF r.ret.kind = "raise" THEN r
       ELSE [self |-> r.self, ret |-> ScalerTransform(r.self.scaler, Matrix(AsTerms(x)))]

fit_transform(self, x) ==
    LET r == private_fit(self, x)
    IN IF r.ret.kind = "raise" THEN r
       ELSE [self |-> r.self, ret |-> ScalerTransform(r.self.scaler, r.ret)]

expand_columns_names_list(self, columns) ==
    LET m == self.non_boolean_features_mask
        prefixes == [k \in 1..Len(SelectSeq(self.powers, NotOne)) |->
                       StrOf(SelectSeq(self.powers, NotOne)[k])]
    IN IF m.some /\ ~BoolIndexOk(columns, m.val) THEN Raise("IndexError")
       ELSE IF ~m.some
         (* columns[None] is one row holding every name; str + that row
            is a type error *)
         THEN IF prefixes = <<>> THEN NamesArray(columns) ELSE Raise("TypeError")
       ELSE
         LET nbc == BoolIndex(columns, m.val)
             additional_columns ==
                 Flatten([p \in 1..Len(prefixes) |->
                            [c \in 1..Len(nbc) |-> prefixes[p] \o "_" \o nbc[c]]])
         IN NamesArray(columns \o additional_columns)

----------------------------------------------------------------------------
(* The object as one record, and the state machine of a caller using it *)

Self == [powers |-> powers, scaler |-> scaler, orig_std |-> orig_std,
         non_boolean_features_mask |-> non_boolean_features_mask]

SetSelf(s) ==
    /\ powers' = s.powers
    /\ scaler' = s.scaler
    /\ orig_std' = s.orig_std
    /\ non_boolean_features_mask' = s.non_boolean_features_mask

FreshTwin(ps, x) == [self |-> New(ps), pc |-> "new", ret |-> NoRet, x |-> x]

InitObject(xs) ==
    /\ \E ps \in Configs, x \in xs :
         /\ ctor = ps
         /\ powers = New(ps).powers
         /\ twin = FreshTwin(ps, x)
    /\ scaler = StandardScaler
    /\ orig_std = None
    /\ non_boolean_features_mask = None
    /\ op = "idle"
    /\ arg = <<>>
    /\ ret = NoRet
    /\ x_fit = None

Init == InitObject({<<>>})

Call(name, x, result) ==
    /\ op = "idle"
    /\ \E r \in {result} :
         /\ op' = name
         /\ arg' = x
         /\ ret' = r.ret
         /\ SetSelf(r.self)
    /\ UNCHANGED <<ctor, twin>>

Fit == \E x \in Matrices :
         /\ Call("fit", x, fit(Self, x))
         /\ x_fit' = Some(x)

FitTransform == \E x \in Matrices :
         /\ Call("fit_transform", x, fit_transform(Self, x))
         /\ x_fit' = Some(x)

Transform == \E x \in Matrices :
         /\ Call("transform", x, transform(Self, x))
         /\ UNCHANGED x_fit

ApplyPowers == \E x \in Matrices :
         /\ Call("apply_powers", x, [self |-> Self, ret |-> apply_powers(Self, x)])
         /\ UNCHANGED x_fit

ExpandColumnsNamesList == \E columns \in NamesLists :
         /\ Call("expand_columns_names_list", columns,
                 [self |-> Self, ret |-> expand_columns_names_list(Self, columns)])
         /\ UNCHANGED x_fit

(* the caller takes the result; the object is ready for the next call *)
Return ==
    /\ op # "idle"
    /\ op' = "idle"
    /\ arg' = <<>>
    /\ ret' = NoRet
    /\ UNCHANGED <<powers, scaler, orig_std, non_boolean_features_mask,
                   ctor, x_fit, twin>>

Next == \/ Fit
        \/ FitTransform
        \/ Transform
        \/ ApplyPowers
        \/ ExpandColumnsNamesList
        \/ Return

Spec == Init /\ [][Next]_vars

----------------------------------------------------------------------------
(* Two fresh instances with the same configuration and the same matrix x:
   one is given fit_transform(x), the other fit(x) and then transform(x). *)

InitTwin == InitObject(Matrices)

TwinFitTransform ==
    /\ x_fit = None
    /\ Call("fit_transform", twin.x, fit_transform(Self, twin.x))
    /\ x_fit' = Some(twin.x)

TwinFit ==
    /\ twin.pc = "new"
    /\ \E r \in {fit(twin.self, twin.x)} :
         twin' = [twin EXCEPT !.self = r.self, !.ret = r.ret,
                              !.pc = IF r.ret.kind = "raise" THEN "done" ELSE "fitted"]
    /\ UNCHANGED <<powers, scaler, orig_std, non_boolean_features_mask,
                   ctor, op, arg, ret, x_fit>>

TwinTransform ==
    /\ twin.pc = "fitted"
    /\ \E r \in {transform(twin.self, twin.x)} :
         twin' = [twin EXCEPT !.self = r.self, !.ret = r.ret, !.pc = "done"]
    /\ UNCHANGED <<powers, scaler, orig_std, non_boolean_features_mask,
                   ctor, op, arg, ret, x_fit>>

NextTwin == \/ TwinFitTransform
            \/ TwinFit
            \/ TwinTransform

SpecTwin == InitTwin /\ [][NextTwin]_vars

----------------------------------------------------------------------------
(* Vocabulary of the properties *)

(* what fit learns as the mask from x: more than 2 distinct values *)
Learned(x) == [k \in 1..Len(x) |-> Cardinality(Range(x[k])) > 2]

Count(m) == Cardinality({k \in DOMAIN m : m[k]})

(* the position of the t-th TRUE of m *)
Nth(m, t) == CHOOSE k \in DOMAIN m : m[k] /\ Cardinality({i \in 1..k : m[i]}) = t

Has(e) == \E i \in DOMAIN powers : powers[i] = e

(* positions in the configuration of the integer powers other than 1 *)
IntIdx == {i \in DOMAIN powers : powers[i].t = "int" /\ powers[i].n # 1}

(* the q-th integer power other than 1, in configuration order *)
NthInt(q) == powers[CHOOSE i \in IntIdx : Cardinality({h \in IntIdx : h <= i}) = q].n

Fitted == x_fit.some

(* the mask in force: the one of the latest fit, nothing before a fit *)
Mask == IF non_boolean_features_mask.some THEN non_boolean_features_mask.val ELSE <<>>

Tri(n) == (n * (n + 1)) \div 2

(* widths of the blocks of apply_powers(arg) *)
WId == IF Has(IntP(1)) THEN Len(arg) ELSE 0
WPow == Cardinality(IntIdx) * Count(Mask)
WPerm == IF Has(StrP("perm")) THEN Tri(Len(arg)) ELSE 0
WLog == IF Has(StrP("log")) THEN Count(Mask) ELSE 0
WExp == IF Has(StrP("exp")) THEN Count(Mask) ELSE 0

PowColumn(k, p) == [r \in 1..Len(arg[k]) |-> Num(IntPow(arg[k][r], p))]
ProdColumn(i, j) == [r \in 1..Len(arg[i]) |-> Num(arg[i][r] * arg[j][r])]
LogColumn(k) == [r \in 1..Len(arg[k]) |-> Log(arg[k][r] + 1)]
ExpColumn(k, std) == [r \in 1..Len(arg[k]) |-> Exp(arg[k][r], std)]

(* column c of the fixed layout:
   originals | one block per integer power | products | log | exp *)
LayoutColumn(c) ==
    LET K == Count(Mask)
        a == c - WId
        b == a - WPow
        d == b - WPerm
        e == d - WLog
    IN IF a <= 0 THEN AsTerms(arg)[c]
       ELSE IF b <= 0 THEN PowColumn(Nth(Mask, ((a - 1) % K) + 1),
                                     NthInt(((a - 1) \div K) + 1))
       ELSE IF d <= 0 THEN
              LET i == CHOOSE i \in 1..Len(arg) : Tri(i - 1) < b /\ b <= Tri(i)
              IN ProdColumn(i, b - Tri(i - 1))
       ELSE IF e <= 0 THEN LogColumn(Nth(Mask, d))
       ELSE ExpColumn(Nth(Mask, e), orig_std.val[e])

ReturnedMatrix == ret.kind = "ndarray2"

----------------------------------------------------------------------------
(* C1: fit_transform(X) on a fresh object returns what fit(X) followed by
   transform(X) returns on another fresh object of the same configuration
   (the same matrix, or the same error), and both objects end with the same
   mask, original std, scaler statistics and powers. *)
C1_FitTransformIsFitThenTransform ==
    (op = "fit_transform" /\ twin.pc = "done") =>
        /\ ret = twin.ret
        /\ Self = twin.self

C1_Witness ==
    /\ op = "fit_transform"
    /\ twin.pc = "done"
    /\ ReturnedMatrix
    /\ ret.scaled_by.some
    /\ Has(StrP("exp")) /\ Has(IntP(2))
    /\ Count(Mask) = 1 /\ Len(arg) = 2

----------------------------------------------------------------------------
(* C2: after a fit on X_fit the mask has one entry per column of X_fit, TRUE
   exactly for the columns with more than 2 distinct values; in every later
   apply_powers or transform on a matrix X each integer power other than 1,
   log and exp yield one column per mask-true column of that learned mask
   (computed from that column of X) and none for the other columns. *)
C2_MaskLearnedOnceAndApplied ==
    Fitted =>
      /\ non_boolean_features_mask = Some(Learned(x_fit.val))
      /\ (op \in {"apply_powers", "transform"} /\ ReturnedMatrix) =>
           LET m == Learned(x_fit.val)
               K == Count(m)
               logs == SelectSeq(ret.val, LAMBDA col : col[1].f = "log")
               exps == SelectSeq(ret.val, LAMBDA col : col[1].f = "exp")
           IN /\ Len(ret.val) = WId + WPerm + K * (Cardinality(IntIdx)
                     + (IF Has(StrP("log")) THEN 1 ELSE 0)
                     + (IF Has(StrP("exp")) THEN 1 ELSE 0))
              /\ \A q \in 1..Cardinality(IntIdx) : \A t \in 1..K :
                     ret.val[WId + (q - 1) * K + t] = PowColumn(Nth(m, t), NthInt(q))
              /\ Len(logs) = IF Has(StrP("log")) THEN K ELSE 0
              /\ \A t \in 1..Len(logs) : logs[t] = LogColumn(Nth(m, t))
              /\ Len(exps) = IF Has(StrP("exp")) THEN K ELSE 0
              /\ \A t \in 1..Len(exps) :
                     exps[t] = ExpColumn(Nth(m, t), Std(x_fit.val[Nth(m, t)]))

(* the scenario of the specification, transformed on data whose own
   columns would give the opposite mask *)
C2_Witness ==
    /\ x_fit = Some(<<<<0, 1, 0, 1>>, <<1, 2, 3, 4>>>>)
    /\ powers = <<IntP(1), IntP(2)>>
    /\ non_boolean_features_mask = Some(<<FALSE, TRUE>>)
    /\ op = "transform"
    /\ arg = <<<<1, 2, 3, 4>>, <<0, 1, 0, 1>>>>
    /\ ReturnedMatrix
    /\ Len(ret.val) = 3
    /\ ret.val[3] = <<Num(0), Num(1), Num(0), Num(1)>>

----------------------------------------------------------------------------
(* C3: once a fit has run, a call of transform, apply_powers or
   expand_columns_names_list, returning or raising, leaves the mask, the
   original std, the scaler statistics and the powers as they were. *)
C3_OnlyFitWrites ==
    [][(Fitted /\ op' \in {"transform", "apply_powers", "expand_columns_names_list"})
          => UNCHANGED <<non_boolean_features_mask, orig_std, scaler, powers>>]_vars

C3_Witness ==
    /\ Fitted
    /\ scaler.fitted
    /\ op = "transform"
    /\ ret.kind = "raise"

----------------------------------------------------------------------------
(* C4: with "perm" configured, apply_powers on n columns yields n(n+1)/2
   product columns after the original and integer-power blocks: the one of
   the pair (i, j), 0 <= j <= i < n, stands at place i(i+1)/2 + j and is the
   elementwise product of columns i and j of the input, whatever the mask. *)
C4_PermBlock ==
    (op = "apply_powers" /\ Has(StrP("perm")) /\ ReturnedMatrix) =>
       LET n == Len(arg)
       IN /\ Len(ret.val) = WId + WPow + Tri(n) + WLog + WExp
          /\ \A i \in 0..(n - 1) : \A j \in 0..i :
                ret.val[WId + WPow + Tri(i) + j + 1] = ProdColumn(i + 1, j + 1)

C4_Witness ==
    /\ op = "apply_powers"
    /\ Has(StrP("perm")) /\ Has(IntP(2))
    /\ Fitted
    /\ Mask = <<TRUE, FALSE>>
    /\ Len(arg) = 2
    /\ ReturnedMatrix
    /\ Len(ret.val) = 4

----------------------------------------------------------------------------
(* C5 as stated: with the default configuration apply_powers(X) returns X
   unchanged for every X, fitted or not. *)
C5_DefaultIsIdentity ==
    (op = "apply_powers" /\ ctor = <<>>) => ret = Matrix(AsTerms(arg))

(* C5 as amended: with the default configuration apply_powers(X) returns X
   unchanged when no fit has run, and after a fit when X has as many columns
   as the fitted matrix; after a fit on another number of columns it raises
   IndexError. *)
C5_DefaultIsIdentityOnFittedWidth ==
    (op = "apply_powers" /\ ctor = <<>>) =>
       IF Fitted /\ Len(arg) # Len(x_fit.val)
         THEN ret = Raise("IndexError")
         ELSE ret = Matrix(AsTerms(arg))

C5_Witness ==
    /\ op = "apply_powers"
    /\ ctor = <<>>
    /\ Fitted
    /\ arg # x_fit.val
    /\ Len(arg) = Len(x_fit.val)
    /\ ret = Matrix(AsTerms(arg))

----------------------------------------------------------------------------
(* C6: apply_powers before any fit, under a configuration with an integer
   power other than 1, "log" or "exp", fails with a dimension error. *)
C6_UnfittedExpandFails ==
    (op = "apply_powers" /\ ~Fitted
       /\ (IntIdx # {} \/ Has(StrP("log")) \/ Has(StrP("exp")))) =>
          /\ ret.kind = "raise"
          /\ ret.err \in {"IndexError", "ValueError"}

----------------------------------------------------------------------------
(* C7: after a fit on n columns, transform of a matrix with another number
   of columns raises the index error of the mask, whatever the
   configuration. *)
C7_WidthMismatchRaises ==
    (op = "transform" /\ Fitted /\ Len(arg) # Len(x_fit.val)) =>
        ret = Raise("IndexError")

C7_Witness ==
    /\ op = "transform"
    /\ Fitted
    /\ scaler.fitted
    /\ powers = <<IntP(1)>>
    /\ Len(arg) < Len(x_fit.val)
    /\ ret = Raise("IndexError")

----------------------------------------------------------------------------
(* C8: after a fit, expand_columns_names_list(names) returns the names,
   then "<p>_<name>" for each integer power p other than 1, in configuration
   order, and each non-boolean column; "perm", "log" and "exp" give no
   names. *)
C8_NamesOfPowerBlocksOnly ==
    (op = "expand_columns_names_list" /\ Fitted /\ ret.kind = "names") =>
       LET K == Count(Mask)
       IN /\ Len(ret.val) = Len(arg) + Cardinality(IntIdx) * K
          /\ \A c \in 1..Len(arg) : ret.val[c] = arg[c]
          /\ \A q \in 1..Cardinality(IntIdx) : \A t \in 1..K :
                ret.val[Len(arg) + (q - 1) * K + t]
                    = Str(NthInt(q)) \o "_" \o arg[Nth(Mask, t)]

----------------------------------------------------------------------------
(* C9: a matrix returned by apply_powers is, column for column, the fixed
   layout: the originals if 1 is configured, one block per integer power
   other than 1 in configuration order, the products, log, exp; its width is
   the sum of the widths of the configured blocks, also when only one block
   is configured. *)
C9_FixedBlockOrder ==
    (op = "apply_powers" /\ ReturnedMatrix) =>
       /\ Len(ret.val) = WId + WPow + WPerm + WLog + WExp
       /\ \A c \in 1..Len(ret.val) : ret.val[c] = LayoutColumn(c)

C9_Witness ==
    /\ op = "apply_powers"
    /\ powers = <<StrP("exp"), IntP(1)>>
    /\ Fitted
    /\ Mask = <<FALSE, TRUE>>
    /\ ReturnedMatrix
    /\ Len(ret.val) = 3
    /\ ret.val[1][1].f = "num"
    /\ ret.val[3][1].f = "exp"

----------------------------------------------------------------------------
(* C10: after a fit the original std has one entry per mask-true column and
   every entry is positive, so no returned matrix holds the nan or inf of a
   division by a zero std. *)
C10_OrigStdPositive ==
    orig_std.some =>
       /\ Len(orig_std.val) = Count(Mask)
       /\ \A k \in 1..Len(orig_std.val) : orig_std.val[k].n > 0
       /\ ReturnedMatrix => AllFinite(ret.val)

C10_Witness ==
    /\ op = "transform"
    /\ Has(StrP("exp"))
    /\ x_fit = Some(<<<<2, 2, 2, 2>>, <<1, 2, 3, 4>>>>)
    /\ orig_std = Some(<<[n |-> 5, d |-> 4]>>)
    /\ arg = <<<<1, 2, 3, 4>>, <<2, 2, 2, 2>>>>
    /\ ReturnedMatrix

====
